---- MODULE Spec2Model ----
(***************************************************************************)
(* Model of the deet debugger (proj-1/deet): the command loop of           *)
(* Debugger::run, the breakpoint table, and the traced process (Inferior)  *)
(* it drives through ptrace.                                               *)
(*                                                                         *)
(* The debugger is single-threaded: one command is processed at a time, so *)
(* every command handler is one atomic action.  What a handler did on the  *)
(* way (the ptrace requests it issued, the lines it printed) is kept in    *)
(* the history variables trace and output.                                 *)
(*                                                                         *)
(* The traced program is the environment.  It is a small fixed program     *)
(* with one-byte instructions; where it branches, and whether a signal     *)
(* arrives while it runs, is nondeterministic.  Inferior::new is taken to  *)
(* return with the child in its exec stop.                                 *)
(*                                                                         *)
(* Specifications:                                                         *)
(*   Spec       the debugger's command loop                                *)
(*   SpecParse  parse_address applied to drawn strings                     *)
(*   SpecWrite  Inferior::write_byte applied to drawn words and addresses  *)
(*   SpecProxy  balancebeam (proj-2): the accept loop and the tasks it     *)
(*              spawns, active_health_checks and handle_connection         *)
(*   SpecDegraded  the same, started from any list of live upstreams that  *)
(*              earlier connections can have left                          *)
(*   SpecMap    parallel_map (week6) with its worker threads               *)
(*   SpecMapFair  SpecMap under a fair scheduler                           *)
(*   SpecList   LinkedList (week3) under push_front and pop_front          *)
(***************************************************************************)
EXTENDS Integers, Sequences, FiniteSets, TLC

\* ------------------------------------------------------------------ bounds

\* Processes spawned in one session (pids 1..MaxRuns).
MaxRuns == 2
\* Entries in the breakpoint table.
MaxBreaks == 2

\* ------------------------------------------------------- program constants

\* size_of::<usize>() on x86_64, the only target of ptrace::getregs().rip.
WordSize == 8
\* The trap byte (int3) written by the Break arm, update_breakpoint and Cont.
TrapByte == 204
\* The placeholder the Break arm stores while no process exists.
Placeholder == 0

Byte == 0..255

\* ------------------------------------------------------ bytes and words
\* A machine word is the sequence of its 8 bytes, least significant first:
\* byte k of the word is (word >> 8*k) & 0xff.  (TLC's integers are 32 bits
\* wide, so a u64 is kept as its bytes.)

RECURSIVE BitAnd(_, _)
BitAnd(a, b) ==
    IF a = 0 \/ b = 0 THEN 0
    ELSE (a % 2) * (b % 2) + 2 * BitAnd(a \div 2, b \div 2)

RECURSIVE BitOr(_, _)
BitOr(a, b) ==
    IF a = 0 THEN b
    ELSE IF b = 0 THEN a
    ELSE (IF a % 2 = 1 \/ b % 2 = 1 THEN 1 ELSE 0) + 2 * BitOr(a \div 2, b \div 2)

\* !x on one byte
BitNot(a) == 255 - a

\* (x as u64) << 8 * byte_offset, for a byte x
ShiftLeftBytes(x, byte_offset) ==
    [k \in 1..WordSize |-> IF k = byte_offset + 1 THEN x ELSE 0]

\* word >> 8 * byte_offset
ShiftRightBytes(word, byte_offset) ==
    [k \in 1..WordSize |-> IF k + byte_offset <= WordSize THEN word[k + byte_offset] ELSE 0]

WordAnd(v, w) == [k \in 1..WordSize |-> BitAnd(v[k], w[k])]
WordOr(v, w) == [k \in 1..WordSize |-> BitOr(v[k], w[k])]
WordNot(v) == [k \in 1..WordSize |-> BitNot(v[k])]
\* the constant 0xff as a u64
WordFF == [k \in 1..WordSize |-> IF k = 1 THEN 255 ELSE 0]
\* (word as u8)
LowByte(word) == word[1]

\* addr & (-(size_of::<usize>() as isize) as usize)
align_addr_to_word(addr) == addr - (addr % WordSize)

\* ------------------------------------------------------ the traced program
\* Code:   5  _start (no debug information)      -> 6
\*         6  main, line 10                       -> 7
\*         7  main, line 11: call foo             -> 8
\*         8  foo,  line 20: call bar             -> 10
\*        10  bar,  line 30: ret                  -> 11
\*        11  foo,  line 21: ret                  -> 9
\*         9  main, line 12: loop to 7, or exit
\* The code straddles the word boundary between 7 and 8.
\* Stack:  every frame is two words, the caller's frame base at the frame base
\*         and the return address in the word above it; the frames of bar, foo
\*         and main lie at 16, 32 and 48.

Entry == 5
CodeAddrs == 5..11
MappedWords == {0, 8, 16, 24, 32, 40}
MappedBytes == UNION {{w + k : k \in 0..(WordSize - 1)} : w \in MappedWords}
\* (address 64 = 0x40 lies in no mapped word)

MainFrame == 48
FooFrame == 32
BarFrame == 16

Image ==
    [a \in MappedBytes |->
        CASE a = 5 -> 49
          [] a = 6 -> 85
          [] a = 7 -> 232
          [] a = 8 -> 232
          [] a = 9 -> 117
          [] a = 10 -> 195
          [] a = 11 -> 195
          [] a = BarFrame -> FooFrame
          [] a = BarFrame + 8 -> 11
          [] a = FooFrame -> MainFrame
          [] a = FooFrame + 8 -> 9
          [] OTHER -> IF a < 16 THEN 144 ELSE 0]

\* The image as the words ptrace reads and writes, by word address.
ImageWords ==
    [w \in MappedWords |-> [k \in 1..WordSize |-> Image[w + k - 1]]]

\* The byte at an address of a memory kept as words.
ByteAt(mem, a) == mem[align_addr_to_word(a)][a - align_addr_to_word(a) + 1]

ExitCodes == {0}

\* Where one instruction leads: the registers after it.
Succ(rip) ==
    CASE rip = 5 -> {[rip |-> 6, rbp |-> MainFrame]}
      [] rip = 6 -> {[rip |-> 7, rbp |-> MainFrame]}
      [] rip = 7 -> {[rip |-> 8, rbp |-> FooFrame]}
      [] rip = 8 -> {[rip |-> 10, rbp |-> BarFrame]}
      [] rip = 10 -> {[rip |-> 11, rbp |-> FooFrame]}
      [] rip = 11 -> {[rip |-> 9, rbp |-> MainFrame]}
      [] rip = 9 -> {[rip |-> 7, rbp |-> MainFrame]}
      [] OTHER -> {}

\* The instructions that may end the program.
CanExit(rip) == rip = 9

\* ------------------------------------------------- the machine under ptrace
\* A traced process p is a record [st, mem, regs]:
\*   st   "stopped"  in a ptrace stop, the only state in which ptrace requests succeed
\*        "exited"   exited, and reaped by waitpid
\*        "signaled" killed by a signal, and reaped by waitpid
\*        "killed"   sent SIGKILL by Child::kill, never waited for
\*   mem  its memory, one word per mapped word address
\*   regs its registers rip and rbp

NoStatus == [kind |-> "None", sig |-> "", val |-> 0]
Stopped(signal, rip) == [kind |-> "Stopped", sig |-> signal, val |-> rip]
Exited(code) == [kind |-> "Exited", sig |-> "", val |-> code]
Signaled(signal) == [kind |-> "Signaled", sig |-> signal, val |-> 0]

\* What executing the one instruction at regs.rip does.
ExecOne(mem, regs) ==
    LET rip == regs.rip IN
    IF rip \notin CodeAddrs
    THEN {[st |-> "stopped", regs |-> regs, status |-> Stopped("SIGSEGV", rip)]}
    ELSE IF ByteAt(mem, rip) = TrapByte
    THEN {[st |-> "stopped", regs |-> [regs EXCEPT !.rip = rip + 1],
           status |-> Stopped("SIGTRAP", rip + 1)]}
    ELSE IF ByteAt(mem, rip) # Image[rip]
    THEN {[st |-> "stopped", regs |-> regs, status |-> Stopped("SIGILL", rip)]}
    ELSE {[st |-> "stopped", regs |-> s, status |-> NoStatus] : s \in Succ(rip)}
         \cup (IF CanExit(rip)
               THEN {[st |-> "exited", regs |-> regs, status |-> Exited(c)] : c \in ExitCodes}
               ELSE {})

\* What may arrive from outside before the next instruction is executed.
SignalOutcomes(regs) ==
    {[st |-> "stopped", regs |-> regs, status |-> Stopped("SIGUSR1", regs.rip)],
     [st |-> "signaled", regs |-> regs, status |-> Signaled("SIGKILL")]}

\* The register states a running process passes through, starting from `frontier`.
RECURSIVE Reach(_, _, _)
Reach(mem, frontier, seen) ==
    IF frontier = {} THEN seen
    ELSE LET now == seen \cup frontier
             next == UNION {{o.regs : o \in {x \in ExecOne(mem, r) : x.status = NoStatus}}
                            : r \in frontier}
         IN Reach(mem, next \ now, now)

\* ptrace::cont then waitpid: the process runs until it stops, exits or is killed.
RunOutcomes(mem, regs) ==
    UNION {SignalOutcomes(r) \cup {o \in ExecOne(mem, r) : o.status # NoStatus}
           : r \in Reach(mem, {regs}, {})}

\* ptrace::step then waitpid: exactly one instruction, reported as a SIGTRAP stop.
StepOutcomes(mem, regs) ==
    SignalOutcomes(regs)
    \cup {IF o.status = NoStatus
          THEN [o EXCEPT !.status = Stopped("SIGTRAP", o.regs.rip)]
          ELSE o : o \in ExecOne(mem, regs)}

\* ptrace::read(pid, aligned_addr): the word at a word-aligned address.
PtraceReadOk(p, aligned_addr) == p.st = "stopped" /\ aligned_addr \in MappedWords
PtraceRead(p, aligned_addr) == p.mem[aligned_addr]

\* ptrace::write(pid, aligned_addr, word)
PtraceWrite(p, aligned_addr, word) ==
    [p EXCEPT !.mem[aligned_addr] = word]

\* A word read as an address (the high bytes of every word read this way are 0).
RECURSIVE WordValueFrom(_, _)
WordValueFrom(word, k) ==
    IF k > WordSize THEN 0
    ELSE IF \A j \in k..WordSize : word[j] = 0 THEN 0
    ELSE word[k] + 256 * WordValueFrom(word, k + 1)
WordValue(word) == WordValueFrom(word, 1)

\* ------------------------------------------------------------- Inferior
\* The methods of Inferior on a process record p = [st, mem, regs, log]; log is
\* the sequence of requests made of the process, each with the set of addresses
\* that held the trap byte and the instruction pointer when it was made.

Traps(mem) == {a \in MappedBytes : ByteAt(mem, a) = TrapByte}
Ev(p, op, addr, val) ==
    [op |-> op, addr |-> addr, val |-> val, traps |-> Traps(p.mem), rip |-> p.regs.rip]
Logged(p, op, addr, val) == [p EXCEPT !.log = Append(@, Ev(p, op, addr, val))]

\* write_byte without the mask: the new byte is or-ed onto the old one
write_byte_NoMask(p0, addr, val) ==
    LET p == Logged(p0, "write_byte", addr, val)
        aligned_addr == align_addr_to_word(addr)
        byte_offset == addr - aligned_addr
    IN IF ~PtraceReadOk(p, aligned_addr)
       THEN [ok |-> FALSE, orig |-> 0, p |-> p]
       ELSE LET word == PtraceRead(p, aligned_addr)
                orig_byte == WordAnd(ShiftRightBytes(word, byte_offset), WordFF)
                updated_word == WordOr(word, ShiftLeftBytes(val, byte_offset))
            IN [ok |-> TRUE, orig |-> LowByte(orig_byte),
                p |-> PtraceWrite(p, aligned_addr, updated_word)]

\* Inferior::write_byte: Ok(orig_byte), or Err when ptrace::read fails.
write_byte(p0, addr, val) ==
    LET p == Logged(p0, "write_byte", addr, val)
        aligned_addr == align_addr_to_word(addr)
        byte_offset == addr - aligned_addr
    IN IF ~PtraceReadOk(p, aligned_addr)
       THEN [ok |-> FALSE, orig |-> 0, p |-> p]
       ELSE LET word == PtraceRead(p, aligned_addr)
                orig_byte == WordAnd(ShiftRightBytes(word, byte_offset), WordFF)
                masked_word == WordAnd(word, WordNot(ShiftLeftBytes(255, byte_offset)))
                updated_word == WordOr(masked_word, ShiftLeftBytes(val, byte_offset))
            IN [ok |-> TRUE, orig |-> LowByte(orig_byte),
                p |-> PtraceWrite(p, aligned_addr, updated_word)]

\* Inferior::kill: Child::kill sends SIGKILL to the pid; it fails (and expect
\* panics) when the pid was already reaped by waitpid.
kill(p0) ==
    LET p == Logged(p0, "kill", 0, 0)
    IN IF p.st \in {"exited", "signaled"}
       THEN [ok |-> FALSE, p |-> p]
       ELSE [ok |-> TRUE, p |-> [p EXCEPT !.st = "killed"]]

\* Inferior::rip: getregs(..).expect(..) panics when the process is gone.
rip(p0) ==
    LET p == Logged(p0, "rip", 0, 0)
    IN [ok |-> p.st = "stopped", rip |-> p.regs.rip, p |-> p]

\* Inferior::back_rip
back_rip(p0) ==
    LET p == Logged(p0, "back_rip", 0, 0)
    IN IF p.st # "stopped"
       THEN [ok |-> FALSE, p |-> p]
       ELSE [ok |-> TRUE, p |-> [p EXCEPT !.regs.rip = @ - 1]]

\* Inferior::continue_inferior: every result the call may return.
continue_inferior(p0) ==
    LET p == Logged(p0, "cont", 0, 0)
    IN IF p.st # "stopped"
       THEN {[ok |-> FALSE, status |-> NoStatus, p |-> p]}
       ELSE {[ok |-> TRUE, status |-> o.status, p |-> [p EXCEPT !.st = o.st, !.regs = o.regs]]
             : o \in RunOutcomes(p.mem, p.regs)}

\* Inferior::step: every result the call may return.
step(p0) ==
    LET p == Logged(p0, "step", 0, 0)
    IN IF p.st # "stopped"
       THEN {[ok |-> FALSE, status |-> NoStatus, p |-> p]}
       ELSE {[ok |-> TRUE, status |-> o.status, p |-> [p EXCEPT !.st = o.st, !.regs = o.regs]]
             : o \in StepOutcomes(p.mem, p.regs)}

\* Inferior::print: the line printed for a status.
StatusLine(status) ==
    CASE status.kind = "Exited" -> "Child exit"
      [] status.kind = "Stopped" -> "Child stop"
      [] status.kind = "Signaled" -> "signal"

\* ------------------------------------------------------ symbol resolution
\* DwarfData: the debug information of the traced program above.

NoAddr == [ok |-> FALSE, addr |-> 0]
SomeAddr(a) == [ok |-> TRUE, addr |-> a]

get_addr_for_line(line_number) ==
    CASE line_number = 10 -> SomeAddr(6)
      [] line_number = 11 -> SomeAddr(7)
      [] line_number = 20 -> SomeAddr(8)
      [] line_number = 21 -> SomeAddr(11)
      [] line_number = 30 -> SomeAddr(10)
      [] line_number = 12 -> SomeAddr(9)
      [] OTHER -> NoAddr

get_addr_for_function(name) ==
    CASE name = <<"m", "a", "i", "n">> -> SomeAddr(6)
      [] name = <<"f", "o", "o">> -> SomeAddr(8)
      [] name = <<"b", "a", "r">> -> SomeAddr(10)
      [] OTHER -> NoAddr

get_line_from_addr(addr) ==
    CASE addr = 6 -> [ok |-> TRUE, line |-> 10]
      [] addr = 7 -> [ok |-> TRUE, line |-> 11]
      [] addr = 8 -> [ok |-> TRUE, line |-> 20]
      [] addr = 9 -> [ok |-> TRUE, line |-> 12]
      [] addr = 10 -> [ok |-> TRUE, line |-> 30]
      [] addr = 11 -> [ok |-> TRUE, line |-> 21]
      [] OTHER -> [ok |-> FALSE, line |-> 0]

get_function_from_addr(addr) ==
    CASE addr \in {6, 7, 9} -> [ok |-> TRUE, name |-> "main"]
      [] addr \in {8, 11} -> [ok |-> TRUE, name |-> "foo"]
      [] addr = 10 -> [ok |-> TRUE, name |-> "bar"]
      [] OTHER -> [ok |-> FALSE, name |-> ""]

\* --------------------------------------------------------- parse_address
\* A location is the sequence of its characters.

HexDigits == <<"0", "1", "2", "3", "4", "5", "6", "7", "8", "9",
               "a", "b", "c", "d", "e", "f">>
UpperHex == [c \in {"A", "B", "C", "D", "E", "F"} |->
    CASE c = "A" -> "a" [] c = "B" -> "b" [] c = "C" -> "c"
      [] c = "D" -> "d" [] c = "E" -> "e" [] c = "F" -> "f"]

\* char::to_digit(radix)
ToDigit(c, radix) ==
    LET l == IF c \in DOMAIN UpperHex THEN UpperHex[c] ELSE c
        hits == {i \in 1..radix : HexDigits[i] = l}
    IN IF hits = {} THEN [ok |-> FALSE, val |-> 0]
       ELSE [ok |-> TRUE, val |-> (CHOOSE i \in hits : TRUE) - 1]

RECURSIVE DigitsValue(_, _, _)
DigitsValue(str, radix, acc) ==
    IF str = <<>> THEN [ok |-> TRUE, val |-> acc]
    ELSE LET d == ToDigit(Head(str), radix)
         IN IF ~d.ok THEN [ok |-> FALSE, val |-> 0]
            ELSE DigitsValue(Tail(str), radix, acc * radix + d.val)

\* usize::from_str_radix: an optional '+', then at least one digit.
from_str_radix(str, radix) ==
    LET digits == IF str # <<>> /\ Head(str) = "+" THEN Tail(str) ELSE str
    IN IF digits = <<>> THEN [ok |-> FALSE, val |-> 0]
       ELSE DigitsValue(digits, radix, 0)

\* str::starts_with, on the lowercased string for the "0x" test
StartsWith(str, c) == str # <<>> /\ Head(str) = c
StartsWith0x(str) == Len(str) >= 2 /\ str[1] = "0" /\ str[2] \in {"x", "X"}

\* What parse_address returns, with the calls it made on DwarfData: which
\* resolvers it asked, in order, the line numbers it passed to
\* get_addr_for_line and the names it passed to get_addr_for_function.
Resolution(found, asked, lines, names) ==
    [ok |-> found.ok, addr |-> found.addr, asked |-> asked, lines |-> lines, names |-> names]

\* parse_address without the test for the leading '*': whatever is not a
\* number is looked up as a function name
parse_address_NoMarker(addr) ==
    LET line_number == from_str_radix(addr, 10)
    IN IF line_number.ok
       THEN Resolution(get_addr_for_line(line_number.val), <<"line">>, <<line_number.val>>, <<>>)
       ELSE Resolution(get_addr_for_function(addr), <<"function">>, <<>>, <<addr>>)

\* parse_address going on to the function names when the line has no address
parse_address_FallThrough(addr) ==
    LET line_number == from_str_radix(addr, 10)
        by_line == get_addr_for_line(line_number.val)
    IN IF line_number.ok /\ by_line.ok
       THEN Resolution(by_line, <<"line">>, <<line_number.val>>, <<>>)
       ELSE IF ~StartsWith(addr, "*")
       THEN Resolution(get_addr_for_function(addr),
                       IF line_number.ok THEN <<"line", "function">> ELSE <<"function">>,
                       IF line_number.ok THEN <<line_number.val>> ELSE <<>>, <<addr>>)
       ELSE LET rest == Tail(addr)
                addr_without_0x == IF StartsWith0x(rest) THEN SubSeq(rest, 3, Len(rest)) ELSE rest
                hex == from_str_radix(addr_without_0x, 16)
            IN Resolution(IF hex.ok THEN SomeAddr(hex.val) ELSE NoAddr, <<>>, <<>>, <<>>)

parse_address(addr) ==
    LET line_number == from_str_radix(addr, 10)
    IN IF line_number.ok
       THEN Resolution(get_addr_for_line(line_number.val), <<"line">>, <<line_number.val>>, <<>>)
       ELSE IF ~StartsWith(addr, "*")
       THEN Resolution(get_addr_for_function(addr), <<"function">>, <<>>, <<addr>>)
       ELSE LET rest == Tail(addr)
                addr_without_0x == IF StartsWith0x(rest) THEN SubSeq(rest, 3, Len(rest)) ELSE rest
                hex == from_str_radix(addr_without_0x, 16)
            IN Resolution(IF hex.ok THEN SomeAddr(hex.val) ELSE NoAddr, <<>>, <<>>, <<>>)

\* The locations the operator may type at the debugger's prompt.
Locations ==
    {<<"1", "0">>,                \* a line
     <<"9", "9">>,                \* no such line
     <<"f", "o", "o">>,           \* a function
     <<"b", "a", "z">>,           \* no such function
     <<"*", "0", "x", "7">>,      \* raw addresses
     <<"*", "9">>,
     <<"*", "4", "0">>,           \* 0x40, in no mapped page
     <<"*", "0", "x">>}           \* not a number

\* The strings parse_address is applied to on its own: every string of at
\* most MaxLocLen of these characters, the locations above, and some longer ones.
MaxLocLen == 4
LocChars == {"*", "+", "0", "1", "7", "f", "o", "x"}
LocationInputs ==
    UNION {[1..n -> LocChars] : n \in 0..MaxLocLen}
    \cup Locations
    \cup {<<"*", "0", "x", "4", "0", "1", "0", "2", "0">>,
          <<"*", "0", "X", "1", "F">>,
          <<"m", "a", "i", "n">>,
          <<"*", "m", "a", "i", "n">>,
          <<"*", "f", "o", "o">>}

\* -------------------------------------------------------- print_backtrace
\* Inferior::print_backtrace: the frames printed, and whether the walk ended
\* without an error or a panic (a failed unwrap, a failed ptrace::read).

\* the walk taking the return address from the word at the frame base
RECURSIVE BacktraceFrom_ReturnAtBase(_, _, _, _)
BacktraceFrom_ReturnAtBase(p, instruction_ptr, base_ptr, frames) ==
    LET line == get_line_from_addr(instruction_ptr)
        fn_name == get_function_from_addr(instruction_ptr)
    IN IF ~line.ok \/ ~fn_name.ok THEN [ok |-> FALSE, frames |-> frames]
       ELSE LET printed == Append(frames, <<fn_name.name, line.line>>)
            IN IF fn_name.name = "main" THEN [ok |-> TRUE, frames |-> printed]
               ELSE IF ~PtraceReadOk(p, base_ptr)
               THEN [ok |-> FALSE, frames |-> printed]
               ELSE BacktraceFrom_ReturnAtBase(p, WordValue(PtraceRead(p, base_ptr)),
                                               WordValue(PtraceRead(p, base_ptr)), printed)

RECURSIVE BacktraceFrom(_, _, _, _)
BacktraceFrom(p, instruction_ptr, base_ptr, frames) ==
    LET line == get_line_from_addr(instruction_ptr)
        fn_name == get_function_from_addr(instruction_ptr)
    IN IF ~line.ok \/ ~fn_name.ok THEN [ok |-> FALSE, frames |-> frames]
       ELSE LET printed == Append(frames, <<fn_name.name, line.line>>)
            IN IF fn_name.name = "main" THEN [ok |-> TRUE, frames |-> printed]
               ELSE IF ~PtraceReadOk(p, base_ptr + 8) \/ ~PtraceReadOk(p, base_ptr)
               THEN [ok |-> FALSE, frames |-> printed]
               ELSE BacktraceFrom(p, WordValue(PtraceRead(p, base_ptr + 8)),
                                  WordValue(PtraceRead(p, base_ptr)), printed)

print_backtrace(p0) ==
    LET p == Logged(p0, "print_backtrace", 0, 0)
    IN IF p.st # "stopped" THEN [ok |-> FALSE, frames |-> <<>>, p |-> p]
       ELSE LET b == BacktraceFrom(p, p.regs.rip, p.regs.rbp, <<>>)
            IN [ok |-> b.ok, frames |-> b.frames, p |-> p]

\* ------------------------------------------------------------- Debugger

VARIABLES
    inferior,      \* Debugger.inferior: 0 for None, else the pid of the Inferior held
    breakpoints,   \* Debugger.breakpoints: the sequence of <<addr, saved byte>>
    procs,         \* the state of every process spawned so far, by pid
    mem,           \* the memory of the process spawned last
    regs,          \* its registers
    session,       \* "prompt", "quit" (run returned) or "panicked"
    lastCmd,       \* the command processed last
    output,        \* the lines it printed
    args,          \* the values formatted into the last of these lines
    frames,        \* the frames its backtrace printed
    trace,         \* the requests it made of the process
    status,        \* the status its last continue_inferior returned
    lastStop       \* the status the last wait on the process spawned last reported

\* The variables of the other programs of the repository, and of the
\* specifications that apply single functions to drawn inputs; the debugger
\* leaves them alone.
VARIABLES
    location,      \* parse_address: the string it is given
    parsed,        \* parse_address: what it returned
    cell           \* write_byte: the process written to, the address, the byte saved

\* balancebeam (proj-2): the proxy's shared state and its tasks
VARIABLES
    live_upstream_addresses,  \* ProxyState.live_upstream_addresses: TRUE for Some(address)
    lock,                     \* the RwLock around it: the writer (0 for none) and the readers
    tasks                     \* the tasks spawned by main's accept loop, in order

debuggerVars == <<inferior, breakpoints, procs, mem, regs, session, lastCmd, output, args,
                  frames, trace, status, lastStop>>
functionVars == <<location, parsed, cell>>
proxyVars == <<live_upstream_addresses, lock, tasks>>

\* parallel_map (week6): the arguments, the vector returned, the two channels,
\* the worker threads and the place of the calling thread
VARIABLES
    input_vec,     \* the argument input_vec, as given
    num_threads,   \* the argument num_threads
    output_vec,    \* the local output_vec
    channels,      \* the queues of the two channels and their live senders
    threads,       \* the workers spawned: where each stands, and the item it holds
    main_pc,       \* where the calling thread stands
    written        \* how often each index of output_vec was assigned in the collecting loop

\* LinkedList (week3)
VARIABLES
    head,          \* LinkedList.head: the values of the nodes from the head on
    size,          \* LinkedList.size
    returned       \* what the last call returned

mapVars == <<input_vec, num_threads, output_vec, channels, threads, main_pc, written>>
listVars == <<head, size, returned>>
otherVars == <<mapVars, listVars>>
vars == <<debuggerVars, functionVars, proxyVars, otherVars>>

State ==
    [inferior |-> inferior, breakpoints |-> breakpoints, procs |-> procs, mem |-> mem,
     regs |-> regs, session |-> session, lastCmd |-> lastCmd, output |-> output,
     args |-> args, frames |-> frames, trace |-> trace, status |-> status,
     lastStop |-> lastStop]

Become(s) ==
    /\ inferior' = s.inferior
    /\ breakpoints' = s.breakpoints
    /\ procs' = s.procs
    /\ mem' = s.mem
    /\ regs' = s.regs
    /\ session' = s.session
    /\ lastCmd' = s.lastCmd
    /\ output' = s.output
    /\ args' = s.args
    /\ frames' = s.frames
    /\ trace' = s.trace
    /\ status' = s.status
    /\ lastStop' = s.lastStop
    /\ UNCHANGED <<functionVars, proxyVars, otherVars>>

\* self.inferior.as_mut().unwrap(), and the state after a call on it
TheProc(s) == [st |-> s.procs[s.inferior], mem |-> s.mem, regs |-> s.regs, log |-> s.trace]
WithProc(s, p) ==
    [s EXCEPT !.procs[s.inferior] = p.st, !.mem = p.mem, !.regs = p.regs, !.trace = p.log]

Println(s, line) == [s EXCEPT !.output = Append(@, line), !.args = <<>>]
\* println! with values formatted into the line
PrintlnWith(s, line, values) == [s EXCEPT !.output = Append(@, line), !.args = values]
\* a failed unwrap or expect: the debugger dies where it stands
Panic(s, message) == [s EXCEPT !.session = "panicked", !.output = Append(@, message)]
Begin(s, cmd) ==
    [s EXCEPT !.lastCmd = cmd, !.output = <<>>, !.args = <<>>, !.frames = <<>>,
              !.trace = <<>>, !.status = NoStatus]

\* Inferior::new succeeding: the child, stopped before its first instruction.
Inferior_new(s) ==
    LET pid == Len(s.procs) + 1
        born == [s EXCEPT !.inferior = pid, !.procs = Append(@, "stopped"), !.mem = ImageWords,
                          !.regs = [rip |-> Entry, rbp |-> 0], !.lastStop = NoStatus]
    IN WithProc(born, Logged(TheProc(born), "spawn", 0, 0))

\* Debugger::update_breakpoint
RECURSIVE InstallFrom(_, _, _)
InstallFrom(s, i, new_breaks) ==
    IF i > Len(s.breakpoints) THEN [s EXCEPT !.breakpoints = new_breaks]
    ELSE LET addr == s.breakpoints[i][1]
             w == write_byte(TheProc(s), addr, TrapByte)
         IN IF ~w.ok THEN Panic(WithProc(s, w.p), "invalid address")
            ELSE InstallFrom(WithProc(s, w.p), i + 1, Append(new_breaks, <<addr, w.orig>>))

\* update_breakpoint with the loop left out: nothing is installed
update_breakpoint_NoInstall(s) == s

update_breakpoint(s) ==
    IF s.breakpoints # <<>> THEN InstallFrom(s, 1, <<>>) ELSE s

\* self.inferior.as_mut().unwrap().kill()
KillHeld(s) ==
    LET k == kill(TheProc(s))
    IN IF k.ok THEN Println(WithProc(s, k.p), "kill running inferior")
       ELSE Panic(WithProc(s, k.p), "kill process failed")

\* lines 54-57 dropping the handle without killing the process
RunKill_NoKill(s) == [s EXCEPT !.inferior = 0]

\* lines 54-57 without `self.inferior = None`
RunKill_KeepSlot(s) == IF s.inferior # 0 THEN KillHeld(s) ELSE s

\* Run arm, lines 54-57
RunKill(s) ==
    IF s.inferior # 0
    THEN LET k == KillHeld(s)
         IN IF k.session = "panicked" THEN k ELSE [k EXCEPT !.inferior = 0]
    ELSE s

\* Run arm, lines 65-69: resume the new process and print the status.
RunResume(s) ==
    {IF ~r.ok THEN Panic(WithProc(s, r.p), "continue_inferior failed")
     ELSE Println([WithProc(s, r.p) EXCEPT !.status = r.status, !.lastStop = r.status],
                  StatusLine(r.status))
     : r \in continue_inferior(TheProc(s))}

\* DebuggerCommand::Run
RunArm(s0, spawned) ==
    LET k == RunKill(Begin(s0, "run"))
    IN IF k.session = "panicked" THEN {k}
       ELSE IF ~spawned THEN {Println(k, "Error starting subprocess")}
       ELSE LET u == update_breakpoint(Inferior_new(k))
            IN IF u.session = "panicked" THEN {u} ELSE RunResume(u)

\* DebuggerCommand::Quit
QuitArm(s0) ==
    LET s == Begin(s0, "quit")
        k == IF s.inferior # 0 THEN KillHeld(s) ELSE s
    IN IF k.session = "panicked" THEN k ELSE [k EXCEPT !.session = "quit"]

\* the find returning the last entry at the address instead of the first
FindBreakpoint_Last(table, at) ==
    LET hits == {i \in 1..Len(table) : table[i][1] = at}
    IN IF hits = {} THEN 0 ELSE CHOOSE i \in hits : \A j \in hits : i >= j

\* the find with `rip == *addr` for its test
FindBreakpoint_AtRip(table, at) ==
    LET hits == {i \in 1..Len(table) : table[i][1] = at + 1}
    IN IF hits = {} THEN 0 ELSE CHOOSE i \in hits : \A j \in hits : i <= j

\* self.breakpoints.iter().find(|(addr, _val)| rip - 1 == *addr): the index, or 0
FindBreakpoint(table, at) ==
    LET hits == {i \in 1..Len(table) : table[i][1] = at}
    IN IF hits = {} THEN 0 ELSE CHOOSE i \in hits : \A j \in hits : i <= j

\* lines 92-95 without the second write_byte: the trap is not put back
StepOver_NoRearm(s, addr, val) ==
    LET w1 == write_byte(TheProc(s), addr, val)
    IN IF ~w1.ok THEN {Panic(WithProc(s, w1.p), "0xcc -> val error")}
       ELSE LET b == back_rip(w1.p)
            IN IF ~b.ok THEN {Panic(WithProc(s, b.p), "back_rip failed")}
               ELSE {IF ~t.ok THEN Panic(WithProc(s, t.p), "step failed")
                     ELSE WithProc(s, t.p)
                     : t \in step(b.p)}

\* lines 92-95 with the trap put back before the step instead of after it
StepOver_RearmFirst(s, addr, val) ==
    LET w1 == write_byte(TheProc(s), addr, val)
    IN IF ~w1.ok THEN {Panic(WithProc(s, w1.p), "0xcc -> val error")}
       ELSE LET b == back_rip(w1.p)
            IN IF ~b.ok THEN {Panic(WithProc(s, b.p), "back_rip failed")}
               ELSE LET w2 == write_byte(b.p, addr, TrapByte)
                    IN IF ~w2.ok THEN {Panic(WithProc(s, w2.p), "val -> 0xcc error")}
                       ELSE {IF ~t.ok THEN Panic(WithProc(s, t.p), "step failed")
                             ELSE WithProc(s, t.p)
                             : t \in step(w2.p)}

\* Cont arm, lines 92-95
StepOver(s, addr, val) ==
    LET w1 == write_byte(TheProc(s), addr, val)
    IN IF ~w1.ok THEN {Panic(WithProc(s, w1.p), "0xcc -> val error")}
       ELSE LET b == back_rip(w1.p)
            IN IF ~b.ok THEN {Panic(WithProc(s, b.p), "back_rip failed")}
               ELSE {IF ~t.ok THEN Panic(WithProc(s, t.p), "step failed")
                     ELSE LET w2 == write_byte(t.p, addr, TrapByte)
                          IN IF ~w2.ok THEN Panic(WithProc(s, w2.p), "val -> 0xcc error")
                             ELSE WithProc(s, w2.p)
                     : t \in step(b.p)}

\* Cont arm, lines 100-108
ContResume(s) ==
    {IF ~r.ok THEN Panic(WithProc(s, r.p), "continue_inferior failed")
     ELSE LET n == Println([WithProc(s, r.p) EXCEPT !.status = r.status,
                                                    !.lastStop = r.status],
                           StatusLine(r.status))
          IN IF r.status.kind = "Exited" THEN [n EXCEPT !.inferior = 0] ELSE n
     : r \in continue_inferior(TheProc(s))}

\* DebuggerCommand::Cont
ContArm(s0) ==
    LET s == Begin(s0, "cont")
    IN IF s.inferior = 0
       THEN {Println(s, "Error: can't use cont when no process running!")}
       ELSE LET r == rip(TheProc(s))
                at == WithProc(s, r.p)
            IN IF ~r.ok THEN {Panic(at, "get rip error")}
               ELSE LET hit == FindBreakpoint(s.breakpoints, r.rip - 1)
                        stepped == IF hit = 0 THEN {at}
                                   ELSE StepOver(at, s.breakpoints[hit][1], s.breakpoints[hit][2])
                    IN UNION {IF a.session = "panicked" THEN {a} ELSE ContResume(a)
                              : a \in stepped}

\* DebuggerCommand::Back
BackArm(s0) ==
    LET s == Begin(s0, "back")
    IN IF s.inferior = 0 THEN Panic(s, "unwrap on None")
       ELSE LET b == print_backtrace(TheProc(s))
                n == [WithProc(s, b.p) EXCEPT !.frames = b.frames]
            IN IF ~b.ok THEN Panic(n, "print_backtrace failed") ELSE n

\* DebuggerCommand::Break
BreakArm(s0, address) ==
    LET s == Begin(s0, "break")
        a == parse_address(address)
    IN IF ~a.ok THEN Panic(s, "unwrap on None")
       ELSE LET w == write_byte(TheProc(s), a.addr, TrapByte)
                pushed == IF s.inferior # 0
                          THEN [WithProc(s, w.p) EXCEPT
                                    !.breakpoints = Append(@, <<a.addr, w.orig>>)]
                          ELSE [s EXCEPT !.breakpoints = Append(@, <<a.addr, Placeholder>>)]
            IN IF s.inferior # 0 /\ ~w.ok THEN Panic(WithProc(s, w.p), "invalid address")
               ELSE PrintlnWith(pushed, "Set breakpoint",
                                <<Len(pushed.breakpoints) - 1, a.addr>>)

\* ---------------------------------------------------------- specification

\* balancebeam started with NumUpstreams --upstream options: every upstream
\* is listed as live, nobody holds the lock, no task was spawned.
NumUpstreams == 2
Upstreams == 1..NumUpstreams
\* ProxyState.upstream_addresses: the port of each upstream stands for its address
upstream_addresses == [u \in Upstreams |-> 8080 + u]
Addresses == {upstream_addresses[u] : u \in Upstreams}
None == 0
InitProxy ==
    /\ live_upstream_addresses = [u \in Upstreams |-> upstream_addresses[u]]
    /\ lock = [writer |-> 0, readers |-> {}]
    /\ tasks = <<>>

\* parallel_map not called, and LinkedList::new()
NoChannels == [queue1 |-> <<>>, queue2 |-> <<>>, senders1 |-> 0, senders2 |-> 0]
NoReturn == [op |-> "new", some |-> FALSE, value |-> 0]
InitOther ==
    /\ input_vec = <<>>
    /\ num_threads = 0
    /\ output_vec = <<>>
    /\ channels = NoChannels
    /\ threads = <<>>
    /\ main_pc = [at |-> "idle", i |-> 0]
    /\ written = <<>>
    /\ head = <<>>
    /\ size = 0
    /\ returned = NoReturn

NotParsed == [done |-> FALSE, value |-> Resolution(NoAddr, <<>>, <<>>, <<>>)]
NoCell == [used |-> FALSE]

\* Debugger::new
InitDebugger ==
    /\ inferior = 0
    /\ breakpoints = <<>>
    /\ procs = <<>>
    /\ mem = ImageWords
    /\ regs = [rip |-> Entry, rbp |-> 0]
    /\ session = "prompt"
    /\ lastCmd = "none"
    /\ output = <<>>
    /\ args = <<>>
    /\ frames = <<>>
    /\ trace = <<>>
    /\ status = NoStatus
    /\ lastStop = NoStatus

Init ==
    /\ InitDebugger
    /\ InitProxy
    /\ InitOther
    /\ location = <<>>
    /\ parsed = NotParsed
    /\ cell = NoCell

Run ==
    /\ session = "prompt"
    /\ \E spawned \in BOOLEAN : \E n \in RunArm(State, spawned) :
          Len(n.procs) <= MaxRuns /\ Become(n)

Quit ==
    /\ session = "prompt"
    /\ Become(QuitArm(State))

Cont ==
    /\ session = "prompt"
    /\ \E n \in ContArm(State) : Become(n)

Back ==
    /\ session = "prompt"
    /\ Become(BackArm(State))

Break ==
    /\ session = "prompt"
    /\ \E address \in Locations :
          LET n == BreakArm(State, address)
          IN Len(n.breakpoints) <= MaxBreaks /\ Become(n)

Next == Run \/ Quit \/ Cont \/ Back \/ Break

Spec == Init /\ [][Next]_vars

\* parse_address on its own: a string is drawn and the function applied to it.
InitParse ==
    /\ InitDebugger
    /\ InitProxy
    /\ InitOther
    /\ location \in LocationInputs
    /\ parsed = NotParsed
    /\ cell = NoCell

Parse ==
    /\ ~parsed.done
    /\ parsed' = [done |-> TRUE, value |-> parse_address(location)]
    /\ UNCHANGED <<location, cell, debuggerVars, proxyVars, otherVars>>

NextParse == Parse

SpecParse == InitParse /\ [][NextParse]_vars

\* write_byte on its own: a stopped process whose word at the address holds
\* drawn bytes; the byte is first set to any value, then a trap is patched in,
\* the byte saved is put back and the trap patched in again, as the Break and
\* Cont arms do, MaxRounds times over.
MaxRounds == 2
WordSamples ==
    {<<17, 34, 51, 68, 85, 102, 119, 136>>,
     <<204, 0, 255, 204, 1, 128, 127, 204>>,
     [k \in 1..WordSize |-> 255],
     [k \in 1..WordSize |-> 0]}
ByteSamples == {0, 1, 85, 204, 255}
WriteAddrs == 0..(2 * WordSize - 1) \cup {64}

\* the requests made of the process are not kept from one call to the next
Written(cell0, w, how) ==
    [cell0 EXCEPT !.p = [w.p EXCEPT !.log = <<>>], !.ok = w.ok, !.ret = w.orig,
                  !.last = how]

InitWrite ==
    /\ InitDebugger
    /\ InitProxy
    /\ InitOther
    /\ location = <<>>
    /\ parsed = NotParsed
    /\ \E addr \in WriteAddrs : \E word \in WordSamples :
          LET aligned_addr == align_addr_to_word(addr)
              memory == IF aligned_addr \in MappedWords
                        THEN [ImageWords EXCEPT ![aligned_addr] = word]
                        ELSE ImageWords
          IN cell = [used |-> TRUE, addr |-> addr,
                     p |-> [st |-> "stopped", mem |-> memory,
                            regs |-> [rip |-> Entry, rbp |-> 0], log |-> <<>>],
                     origin |-> memory, ok |-> TRUE, ret |-> 0, saved |-> 0, val |-> 0,
                     last |-> "none", rounds |-> 0]

\* write_byte(addr, val) for any byte, before any trap is written
Poke ==
    /\ cell.used /\ cell.last = "none"
    /\ \E val \in ByteSamples :
          LET w == write_byte(cell.p, cell.addr, val)
              n == Written([cell EXCEPT !.val = val], w, "poke")
          IN cell' = [n EXCEPT !.origin = n.p.mem]
    /\ UNCHANGED <<location, parsed, debuggerVars, proxyVars, otherVars>>

\* write_byte(addr, 0xcc): the first time the byte returned is saved (Break
\* arm, update_breakpoint), afterwards it is dropped (Cont arm, line 95)
Patch ==
    /\ cell.used /\ cell.ok /\ cell.last \in {"none", "poke", "restore"}
    /\ LET w == write_byte(cell.p, cell.addr, TrapByte)
           n == Written([cell EXCEPT !.val = TrapByte], w, "patch")
       IN cell' = IF cell.last = "restore" THEN [n EXCEPT !.rounds = @ + 1]
                  ELSE [n EXCEPT !.saved = w.orig]
    /\ UNCHANGED <<location, parsed, debuggerVars, proxyVars, otherVars>>

\* write_byte(addr, saved byte) (Cont arm, line 92)
Restore ==
    /\ cell.used /\ cell.ok /\ cell.last = "patch" /\ cell.rounds < MaxRounds
    /\ LET w == write_byte(cell.p, cell.addr, cell.saved)
       IN cell' = Written([cell EXCEPT !.val = cell.saved], w, "restore")
    /\ UNCHANGED <<location, parsed, debuggerVars, proxyVars, otherVars>>

NextWrite == Poke \/ Patch \/ Restore

SpecWrite == InitWrite /\ [][NextWrite]_vars

\* ------------------------------------------------------------ balancebeam
\* main's accept loop spawns two tasks for every connection it accepts:
\* active_health_checks and handle_connection.  A task is a record
\*   kind   "health" or "conn"
\*   pc     where it stands
\*   i      active_health_checks: the loop variable (counted from 1)
\*   idx    connect_to_upstream: upstream_idx
\*   result how it ended
\* Whether an upstream accepts a connection and what it answers is up to the
\* upstream at that moment.

\* Connections accepted in one run.
MaxConns == 1

ProbeOutcomes == {"connect failed", "send failed", "read failed", "200", "not 200"}

\* failed: the upstreams the task has tried to connect to in vain
HealthTask == [kind |-> "health", pc |-> "sleep", i |-> 1, idx |-> 0, result |-> "", failed |-> {}]
ConnTask == [kind |-> "conn", pc |-> "connect", i |-> 0, idx |-> 0, result |-> "", failed |-> {}]

TaskIds(kind) == {t \in 1..Len(tasks) : tasks[t].kind = kind}
Unlocked(t) == [writer |-> IF lock.writer = t THEN 0 ELSE lock.writer,
                readers |-> lock.readers \ {t}]

\* main, lines 88-102: a connection is accepted and the two tasks are spawned
Accept ==
    /\ Len(tasks) < 2 * MaxConns
    /\ tasks' = tasks \o <<HealthTask, ConnTask>>
    /\ UNCHANGED <<live_upstream_addresses, lock, debuggerVars, functionVars, otherVars>>

\* active_health_checks, lines 164-166: the sleep of one iteration ends
HealthCheckSleep(t) ==
    /\ tasks[t].pc = "sleep"
    /\ tasks' = [tasks EXCEPT ![t].pc = "lock"]
    /\ UNCHANGED <<live_upstream_addresses, lock, debuggerVars, functionVars, otherVars>>

\* line 168: state.live_upstream_addresses.write().await
HealthCheckLock(t) ==
    /\ tasks[t].pc = "lock"
    /\ lock.writer = 0 /\ lock.readers = {}
    /\ lock' = [lock EXCEPT !.writer = t]
    /\ tasks' = [tasks EXCEPT ![t].pc = "probe"]
    /\ UNCHANGED <<live_upstream_addresses, debuggerVars, functionVars, otherVars>>

\* lines 179-211: what the task does after the probe of upstream i
AfterProbe(task, outcome) ==
    IF outcome # "200"
    THEN [task EXCEPT !.pc = "done", !.result = outcome,
                      !.failed = IF outcome = "connect failed" THEN @ \cup {task.i} ELSE @]
    ELSE IF task.i < NumUpstreams THEN [task EXCEPT !.pc = "sleep", !.i = @ + 1]
    ELSE [task EXCEPT !.pc = "done", !.result = "checked"]

\* lines 170-211: the probe of upstream i, with the write lock held; the guard
\* is dropped at the end of the iteration and on every return
HealthCheckProbe(t) ==
    /\ tasks[t].pc = "probe"
    /\ \E outcome \in ProbeOutcomes :
          /\ live_upstream_addresses' =
                CASE outcome = "200" ->
                        [live_upstream_addresses EXCEPT ![tasks[t].i] = upstream_addresses[tasks[t].i]]
                  [] outcome = "not 200" -> [live_upstream_addresses EXCEPT ![tasks[t].i] = None]
                  [] OTHER -> live_upstream_addresses
          /\ tasks' = [tasks EXCEPT ![t] = AfterProbe(@, outcome)]
    /\ lock' = Unlocked(t)
    /\ UNCHANGED <<debuggerVars, functionVars, otherVars>>

\* connect_to_upstream, lines 112-119: the read lock is taken and an upstream
\* that is listed as live is drawn; with none listed the loop never ends
ConnectToUpstream(t) ==
    /\ tasks[t].pc = "connect"
    /\ lock.writer = 0
    /\ lock' = [lock EXCEPT !.readers = @ \cup {t}]
    /\ IF \A u \in Upstreams : live_upstream_addresses[u] = None
       THEN tasks' = [tasks EXCEPT ![t].pc = "spin"]
       ELSE \E upstream_idx \in {u \in Upstreams : live_upstream_addresses[u] # None} :
               tasks' = [tasks EXCEPT ![t].pc = "connecting", ![t].idx = upstream_idx]
    /\ UNCHANGED <<live_upstream_addresses, debuggerVars, functionVars, otherVars>>

\* lines 121-128: TcpStream::connect returns
ConnectReturns(t) ==
    /\ tasks[t].pc = "connecting"
    /\ \E connected \in BOOLEAN :
          tasks' = [tasks EXCEPT ![t].pc = IF connected THEN "serve" ELSE "filter",
                                 ![t].failed = IF connected THEN @ ELSE @ \cup {tasks[t].idx}]
    /\ lock' = Unlocked(t)
    /\ UNCHANGED <<live_upstream_addresses, debuggerVars, functionVars, otherVars>>

\* a failed attempt that leaves the slot as it was
RECURSIVE filter_from_NoMark(_, _, _, _, _)
filter_from_NoMark(list, i, upstream_idx, reachable, failed) ==
    IF i > NumUpstreams THEN [ok |-> FALSE, list |-> list, failed |-> failed]
    ELSE IF i = upstream_idx \/ list[i] = None
    THEN filter_from_NoMark(list, i + 1, upstream_idx, reachable, failed)
    ELSE IF list[i] \in reachable THEN [ok |-> TRUE, list |-> list, failed |-> failed]
    ELSE filter_from_NoMark(list, i + 1, upstream_idx, reachable, failed \cup {i})

\* filter_upstream, lines 136-158, from slot i on; reachable are the addresses
\* that accept a connection now, failed the slots tried in vain so far
RECURSIVE filter_from(_, _, _, _, _)
filter_from(list, i, upstream_idx, reachable, failed) ==
    IF i > NumUpstreams THEN [ok |-> FALSE, list |-> list, failed |-> failed]
    ELSE IF i = upstream_idx \/ list[i] = None
    THEN filter_from(list, i + 1, upstream_idx, reachable, failed)
    ELSE IF list[i] \in reachable THEN [ok |-> TRUE, list |-> list, failed |-> failed]
    ELSE filter_from([list EXCEPT ![i] = None], i + 1, upstream_idx, reachable, failed \cup {i})

\* filter_upstream, with the write lock held from line 132 to its return
FilterUpstream(t) ==
    /\ tasks[t].pc = "filter"
    /\ lock.writer = 0 /\ lock.readers = {}
    /\ \E reachable \in SUBSET Addresses :
          LET f == filter_from([live_upstream_addresses EXCEPT ![tasks[t].idx] = None],
                               1, tasks[t].idx, reachable, tasks[t].failed)
          IN /\ live_upstream_addresses' = f.list
             /\ tasks' = [tasks EXCEPT ![t].pc = IF f.ok THEN "serve" ELSE "done",
                                       ![t].result = IF f.ok THEN "" ELSE "502",
                                       ![t].failed = f.failed]
    /\ UNCHANGED <<lock, debuggerVars, functionVars, otherVars>>

\* handle_connection, lines 259-325: the client is served until it hangs up
HandleConnection(t) ==
    /\ tasks[t].pc = "serve"
    /\ tasks' = [tasks EXCEPT ![t].pc = "done", ![t].result = "served"]
    /\ UNCHANGED <<live_upstream_addresses, lock, debuggerVars, functionVars, otherVars>>

HealthCheckStep == \E t \in TaskIds("health") :
    HealthCheckSleep(t) \/ HealthCheckLock(t) \/ HealthCheckProbe(t)
ConnectionStep == \E t \in TaskIds("conn") :
    ConnectToUpstream(t) \/ ConnectReturns(t) \/ FilterUpstream(t) \/ HandleConnection(t)

NextProxy == Accept \/ HealthCheckStep \/ ConnectionStep

SpecProxy == Init /\ [][NextProxy]_vars

\* the proxy after earlier connections have come and gone: any of the upstreams
\* may have been marked dead by then
InitDegraded ==
    /\ live_upstream_addresses \in [Upstreams -> {None} \cup Addresses]
    /\ \A u \in Upstreams : live_upstream_addresses[u] \in {None, upstream_addresses[u]}
    /\ lock = [writer |-> 0, readers |-> {}]
    /\ tasks = <<>>
    /\ InitDebugger
    /\ InitOther
    /\ location = <<>>
    /\ parsed = NotParsed
    /\ cell = NoCell

SpecDegraded == InitDegraded /\ [][NextProxy]_vars

\* ------------------------------------------------------------ parallel_map
\* week6/parallel_map: the calling thread spawns the workers, sends every
\* (index, item) down the first channel, closes it and collects (index, result)
\* from the second one; each worker loops on the first channel.

MaxInputLen == 2
MaxThreads == 2
Items == {2, 3}

\* the closure of main: |x| x * x, and U::default() of its result type
F(x) == x * x
Default == 0

InputVecs == UNION {[1..n -> Items] : n \in 0..MaxInputLen}

\* every result sent under index 0
Reply_NoIndex(i, t) == <<0, F(t)>>

\* what a worker sends for the (i, t) it received
Reply(i, t) == <<i, F(t)>>

\* output_vec[i] = u, the index counted from 0
Store(out, msg) == [out EXCEPT ![msg[1] + 1] = msg[2]]

NoItem == <<>>
Worker == [pc |-> "recv", item |-> NoItem]

InitMap ==
    /\ input_vec \in InputVecs
    /\ num_threads \in 0..MaxThreads
    /\ output_vec = [i \in 1..Len(input_vec) |-> Default]
    /\ channels = [queue1 |-> <<>>, queue2 |-> <<>>, senders1 |-> 1, senders2 |-> 1]
    /\ threads = <<>>
    /\ main_pc = [at |-> "spawn", i |-> 0]
    /\ written = [i \in 1..Len(input_vec) |-> 0]
    /\ head = <<>> /\ size = 0 /\ returned = NoReturn
    /\ InitDebugger
    /\ InitProxy
    /\ location = <<>>
    /\ parsed = NotParsed
    /\ cell = NoCell

MapIdle == UNCHANGED <<input_vec, num_threads, listVars, debuggerVars, functionVars, proxyVars>>

\* one turn of for _ in 0..num_threads: the clones and thread::spawn
SpawnWorker ==
    /\ main_pc.at = "spawn"
    /\ Len(threads) < num_threads
    /\ threads' = Append(threads, Worker)
    /\ channels' = [channels EXCEPT !.senders2 = @ + 1]
    /\ UNCHANGED <<output_vec, main_pc, written>>
    /\ MapIdle

DropSender2_Keep ==
    /\ main_pc.at = "spawn"
    /\ Len(threads) = num_threads
    /\ main_pc' = [at |-> "send", i |-> 0]
    /\ UNCHANGED <<output_vec, channels, threads, written>>
    /\ MapIdle

\* drop(sender2), once the loop of spawns is over
DropSender2 ==
    /\ main_pc.at = "spawn"
    /\ Len(threads) = num_threads
    /\ channels' = [channels EXCEPT !.senders2 = @ - 1]
    /\ main_pc' = [at |-> "send", i |-> 0]
    /\ UNCHANGED <<output_vec, threads, written>>
    /\ MapIdle

\* one turn of the enumerate loop: sender1.send((i, t))
SendInput ==
    /\ main_pc.at = "send"
    /\ main_pc.i < Len(input_vec)
    /\ channels' = [channels EXCEPT
                        !.queue1 = Append(@, <<main_pc.i, input_vec[main_pc.i + 1]>>)]
    /\ main_pc' = [main_pc EXCEPT !.i = @ + 1]
    /\ UNCHANGED <<output_vec, threads, written>>
    /\ MapIdle

\* drop(sender1)
DropSender1 ==
    /\ main_pc.at = "send"
    /\ main_pc.i = Len(input_vec)
    /\ channels' = [channels EXCEPT !.senders1 = @ - 1]
    /\ main_pc' = [at |-> "collect", i |-> 0]
    /\ UNCHANGED <<output_vec, threads, written>>
    /\ MapIdle

\* receiver2.recv() gives Ok((i, u)): output_vec[i] = u
Collect ==
    /\ main_pc.at = "collect"
    /\ channels.queue2 # <<>>
    /\ output_vec' = Store(output_vec, Head(channels.queue2))
    /\ written' = [written EXCEPT ![Head(channels.queue2)[1] + 1] = @ + 1]
    /\ channels' = [channels EXCEPT !.queue2 = Tail(@)]
    /\ UNCHANGED <<threads, main_pc>>
    /\ MapIdle

\* receiver2.recv() gives Err: the channel is empty and has no sender left;
\* output_vec is returned
Return ==
    /\ main_pc.at = "collect"
    /\ channels.queue2 = <<>>
    /\ channels.senders2 = 0
    /\ main_pc' = [at |-> "done", i |-> 0]
    /\ UNCHANGED <<output_vec, channels, threads, written>>
    /\ MapIdle

\* receiver.recv() gives Ok((i, t)) in worker w
WorkerRecv(w) ==
    /\ threads[w].pc = "recv"
    /\ channels.queue1 # <<>>
    /\ threads' = [threads EXCEPT ![w] = [pc |-> "send", item |-> Head(channels.queue1)]]
    /\ channels' = [channels EXCEPT !.queue1 = Tail(@)]
    /\ UNCHANGED <<output_vec, main_pc, written>>
    /\ MapIdle

\* sender.send((i, f(t))) in worker w
WorkerSend(w) ==
    /\ threads[w].pc = "send"
    /\ channels' = [channels EXCEPT
                        !.queue2 = Append(@, Reply(threads[w].item[1], threads[w].item[2]))]
    /\ threads' = [threads EXCEPT ![w] = Worker]
    /\ UNCHANGED <<output_vec, main_pc, written>>
    /\ MapIdle

\* receiver.recv() gives Err in worker w: the loop ends, the closure returns
\* and its clone of sender2 is dropped
WorkerExit(w) ==
    /\ threads[w].pc = "recv"
    /\ channels.queue1 = <<>>
    /\ channels.senders1 = 0
    /\ threads' = [threads EXCEPT ![w] = [pc |-> "exited", item |-> NoItem]]
    /\ channels' = [channels EXCEPT !.senders2 = @ - 1]
    /\ UNCHANGED <<output_vec, main_pc, written>>
    /\ MapIdle

MainStep == SpawnWorker \/ DropSender2 \/ SendInput \/ DropSender1 \/ Collect \/ Return

WorkerStep(w) ==
    /\ w \in 1..Len(threads)
    /\ (WorkerRecv(w) \/ WorkerSend(w) \/ WorkerExit(w))

WorkerSteps == \E w \in 1..MaxThreads : WorkerStep(w)

NextMap == MainStep \/ WorkerSteps

SpecMap == InitMap /\ [][NextMap]_vars

\* the scheduler lets every thread that can take a step take it in the end
SpecMapFair ==
    /\ SpecMap
    /\ WF_vars(MainStep)
    /\ \A w \in 1..MaxThreads : WF_vars(WorkerStep(w))

\* ------------------------------------------------------------ LinkedList
\* week3/linked_list: an Option is the empty sequence or a sequence of one
\* element, a Box<Node> the record of its node

MaxNodes == 4
Values == {1, 2, 3}

NoNode == <<>>
Some(x) == <<x>>

\* Node::new
Node_new(value, next) == [value |-> value, next |-> next]

\* the nodes reachable from an Option<Box<Node>>
RECURSIVE NodeCount(_)
NodeCount(link) == IF link = NoNode THEN 0 ELSE 1 + NodeCount(link[1].next)

LinkedList_new == [head |-> NoNode, size |-> 0]
get_size(self) == self.size
is_empty(self) == get_size(self) = 0

push_front(self, value) ==
    [head |-> Some(Node_new(value, self.head)), size |-> self.size + 1]

\* the size taken down before the head is looked at
pop_front_EagerDecrement(self) ==
    IF self.head = NoNode
    THEN [self |-> [self EXCEPT !.size = @ - 1], ret |-> NoNode]
    ELSE [self |-> [head |-> self.head[1].next, size |-> self.size - 1],
          ret |-> Some(self.head[1].value)]

\* self.head.take()? returns None at once on an empty list; a size below 0
\* stands for the usize underflow
pop_front(self) ==
    IF self.head = NoNode
    THEN [self |-> self, ret |-> NoNode]
    ELSE [self |-> [head |-> self.head[1].next, size |-> self.size - 1],
          ret |-> Some(self.head[1].value)]

TheList == [head |-> head, size |-> size]

ListIdle == UNCHANGED <<mapVars, debuggerVars, functionVars, proxyVars>>

PushFront ==
    /\ NodeCount(head) < MaxNodes
    /\ \E value \in Values :
          /\ head' = push_front(TheList, value).head
          /\ size' = push_front(TheList, value).size
          /\ returned' = [op |-> "push_front", some |-> FALSE, value |-> 0]
    /\ ListIdle

PopFront ==
    /\ head' = pop_front(TheList).self.head
    /\ size' = pop_front(TheList).self.size
    /\ returned' = [op |-> "pop_front",
                    some |-> pop_front(TheList).ret # NoNode,
                    value |-> IF pop_front(TheList).ret = NoNode THEN 0
                              ELSE pop_front(TheList).ret[1]]
    /\ ListIdle

NextList == PushFront \/ PopFront

SpecList == Init /\ [][NextList]_vars

\* ------------------------------------------------------------ properties

Ops(log) == {log[k].op : k \in 1..Len(log)}
TableAddrs(table) == {table[i][1] : i \in 1..Len(table)}
Held == inferior # 0
HeldAlive == inferior # 0 /\ procs[inferior] = "stopped"
Live == {pid \in 1..Len(procs) : procs[pid] = "stopped"}

\* C1: when run resumes the process it has just spawned, every address of the
\* breakpoint table holds the trap byte in that process's memory, including the
\* addresses recorded by break commands given while no process existed.
C1_InstalledBeforeFirstResume ==
    lastCmd = "run" =>
        \A k \in 1..Len(trace) :
            trace[k].op = "cont" => TableAddrs(breakpoints) \subseteq trace[k].traps

\* two breakpoints recorded with no process, then the first process is started
\* and stops at one of them
C1_Witness ==
    /\ lastCmd = "run"
    /\ Len(procs) = 1
    /\ "cont" \in Ops(trace)
    /\ Cardinality(TableAddrs(breakpoints)) = 2
    /\ status.kind = "Stopped" /\ status.sig = "SIGTRAP"

\* C2: with a live process at the prompt, the saved byte of every entry is the
\* byte of the process image at the entry's address.
C2_SavedByteIsOriginal ==
    (session = "prompt" /\ HeldAlive) =>
        \A i \in 1..Len(breakpoints) : breakpoints[i][2] = Image[breakpoints[i][1]]

\* C3: when the resume of a command reports Exited, the controller holds no
\* process afterwards.
C3_ExitedReleasesHandle ==
    (session = "prompt" /\ status.kind = "Exited") => inferior = 0

\* C4: right after a break on a live process the address holds the trap byte;
\* and a continue that stepped over a breakpoint leaves the table unchanged and
\* resumes the process only with every table address holding the trap byte.
C4_TrapRearmed ==
    [][/\ (lastCmd' = "break" /\ session' = "prompt" /\ Held)
            => ByteAt(mem', breakpoints'[Len(breakpoints')][1]) = TrapByte
       /\ (lastCmd' = "cont" /\ "step" \in Ops(trace'))
            => /\ breakpoints' = breakpoints
               /\ \A k \in 1..Len(trace') :
                     trace'[k].op = "cont"
                        => TableAddrs(breakpoints) \subseteq trace'[k].traps]_vars

\* a continue stepped over the breakpoint at an address and the process came
\* round to stop at the same breakpoint again
C4_Witness ==
    /\ lastCmd = "cont"
    /\ Len(trace) >= 5
    /\ trace[2].op = "write_byte" /\ trace[4].op = "step" /\ trace[5].op = "write_byte"
    /\ status = Stopped("SIGTRAP", trace[2].addr + 1)

\* C5: at most one process is live, and a run that spawns while a process is
\* held has killed that process first.
C5_AtMostOneLive ==
    [][/\ Cardinality(Live') <= 1
       /\ (lastCmd' = "run" /\ "spawn" \in Ops(trace') /\ Held)
            => /\ trace'[1].op = "kill" /\ trace'[2].op = "spawn"
               /\ procs'[inferior] = "killed"]_vars

\* a second process was started while the first was stopped
C5_Witness ==
    /\ Len(procs) = 2
    /\ procs[1] = "killed"
    /\ procs[2] = "stopped"
    /\ inferior = 2

\* C6: a run or quit given while the controller holds the handle of a process
\* that has exited or was killed by a signal completes without a panic.
C6_KillIsIdempotent ==
    [][(lastCmd' \in {"run", "quit"} /\ Held /\ procs[inferior] \in {"exited", "signaled"})
            => session' # "panicked"]_vars

\* C7: after a resume reported Terminated-by-signal, a following continue,
\* backtrace or break is processed without a panic.  (For run and quit, which
\* go through Inferior::kill, see C6.)
C7_UsableAfterSignaled ==
    [][(/\ Held /\ procs[inferior] = "signaled" /\ status.kind = "Signaled"
        /\ lastCmd' \in {"cont", "back", "break"})
            => session' # "panicked"]_vars

\* C8: a break on an address that is not mapped in the live process leaves the
\* session at the prompt with the table, the memory and the process as they were.
C8_InvalidAddressChangesNothing ==
    [][(/\ lastCmd' = "break"
        /\ HeldAlive
        /\ \E k \in 1..Len(trace') :
              /\ trace'[k].op = "write_byte"
              /\ align_addr_to_word(trace'[k].addr) \notin MappedWords)
            => /\ session' = "prompt"
               /\ breakpoints' = breakpoints
               /\ mem' = mem
               /\ inferior' = inferior
               /\ procs' = procs]_vars

\* C9: continue or backtrace with no process returns to the prompt with the
\* table and the process slot as they were.
C9_NoProcessCommandKeepsState ==
    [][(~Held /\ lastCmd' \in {"cont", "back"})
            => /\ session' = "prompt"
               /\ breakpoints' = breakpoints
               /\ inferior' = inferior]_vars

\* C10: when run fails to spawn, the controller holds no process, no process is
\* live, no process was created, the table is unchanged and the session is at
\* the prompt.
C10_SpawnFailure ==
    [][(lastCmd' = "run" /\ Len(output') > 0
        /\ output'[Len(output')] = "Error starting subprocess")
            => /\ inferior' = 0
               /\ Live' = {}
               /\ Len(procs') = Len(procs)
               /\ breakpoints' = breakpoints
               /\ session' = "prompt"]_vars

\* the spawn failed after the process held before was killed, with a
\* breakpoint in the table
C10_Witness ==
    /\ lastCmd = "run"
    /\ output = <<"kill running inferior", "Error starting subprocess">>
    /\ breakpoints # <<>>
    /\ session = "prompt"

\* C11: no command but break changes the addresses of the table or their
\* order, whatever becomes of the process; and after every run that started a
\* process, the saved byte of every entry is the byte of the new process's
\* image at the entry's address.
C11_TableSurvivesRestart ==
    [][/\ lastCmd' \in {"run", "cont", "back", "quit"}
            => /\ Len(breakpoints') = Len(breakpoints)
               /\ \A i \in 1..Len(breakpoints) : breakpoints'[i][1] = breakpoints[i][1]
       /\ (lastCmd' = "run" /\ "spawn" \in Ops(trace') /\ session' = "prompt")
            => \A i \in 1..Len(breakpoints') :
                  breakpoints'[i][2] = Image[breakpoints'[i][1]]]_vars

\* The digits of a string and the number they spell, in a radix.
DecChars == {"0", "1", "2", "3", "4", "5", "6", "7", "8", "9"}
HexChars == DecChars \cup {"a", "b", "c", "d", "e", "f", "A", "B", "C", "D", "E", "F"}
IsDigits(str, chars) == str # <<>> /\ \A i \in 1..Len(str) : str[i] \in chars
DigitOf(c) ==
    CASE c \in {"a", "A"} -> 10 [] c \in {"b", "B"} -> 11 [] c \in {"c", "C"} -> 12
      [] c \in {"d", "D"} -> 13 [] c \in {"e", "E"} -> 14 [] c \in {"f", "F"} -> 15
      [] OTHER -> CHOOSE d \in 0..9 : ToString(d) = c
RECURSIVE Power(_, _)
Power(b, n) == IF n = 0 THEN 1 ELSE b * Power(b, n - 1)
RECURSIVE NumberOf(_, _)
NumberOf(str, radix) ==
    IF str = <<>> THEN 0
    ELSE DigitOf(Head(str)) * Power(radix, Len(str) - 1) + NumberOf(Tail(str), radix)
\* a string str::parse::<usize>() accepts: digits after an optional '+'
Unsigned(str) == IF StartsWith(str, "+") THEN Tail(str) ELSE str
IsNumeric(str) == IsDigits(Unsigned(str), DecChars)
\* what follows the '*' and an optional 0x
RawDigits(str) ==
    LET rest == Tail(str)
    IN IF Len(rest) >= 2 /\ rest[1] = "0" /\ rest[2] \in {"x", "X"}
       THEN SubSeq(rest, 3, Len(rest)) ELSE rest

\* C12: a location that starts with '*' is never passed to line or function
\* resolution, and when the rest (after an optional 0x) is hexadecimal digits
\* the address is the number they spell ('*0x401020' gives 0x401020); for a
\* bare integer the first resolver asked is line resolution, with that number.
C12_MarkerMeansRawAddress ==
    parsed.done =>
        /\ StartsWith(location, "*")
              => /\ parsed.value.asked = <<>>
                 /\ IsDigits(RawDigits(location), HexChars)
                       => /\ parsed.value.ok
                          /\ parsed.value.addr = NumberOf(RawDigits(location), 16)
                 /\ parsed.value.ok => IsDigits(Unsigned(RawDigits(location)), HexChars)
        /\ location = <<"*", "0", "x", "4", "0", "1", "0", "2", "0">>
              => parsed.value.addr = 4198432
        /\ IsDigits(location, DecChars)
              => /\ parsed.value.asked # <<>>
                 /\ parsed.value.asked[1] = "line"
                 /\ parsed.value.lines = <<NumberOf(location, 10)>>

\* '*0x401020' was parsed
C12_Witness ==
    /\ parsed.done
    /\ location = <<"*", "0", "x", "4", "0", "1", "0", "2", "0">>
    /\ parsed.value.ok
    /\ parsed.value.asked = <<>>

\* C13 as stated: a numeric location is resolved as a line first; when the
\* line has no address the same string is then resolved as a function name,
\* and the location is unresolved only if both resolutions were tried and failed.
C13_NumericFallsBackToFunction ==
    (parsed.done /\ IsNumeric(location)) =>
        /\ parsed.value.asked # <<>> /\ parsed.value.asked[1] = "line"
        /\ ~get_addr_for_line(NumberOf(Unsigned(location), 10)).ok
              => /\ parsed.value.asked = <<"line", "function">>
                 /\ parsed.value.names = <<location>>
        /\ ~parsed.value.ok => "function" \in {parsed.value.asked[k] : k \in 1..Len(parsed.value.asked)}

\* C13, amended: a numeric location is resolved as a line and as nothing else:
\* the result is that of line resolution, found or not; function-name
\* resolution is asked exactly for the strings that are neither numeric nor
\* begin with '*', and its result is returned.
C13_NumericIsLineOnly ==
    parsed.done =>
        /\ IsNumeric(location)
              => /\ parsed.value.asked = <<"line">>
                 /\ parsed.value.lines = <<NumberOf(Unsigned(location), 10)>>
                 /\ parsed.value.names = <<>>
                 /\ parsed.value.ok = get_addr_for_line(NumberOf(Unsigned(location), 10)).ok
                 /\ parsed.value.addr = get_addr_for_line(NumberOf(Unsigned(location), 10)).addr
        /\ (~IsNumeric(location) /\ ~StartsWith(location, "*"))
              => /\ parsed.value.asked = <<"function">>
                 /\ parsed.value.names = <<location>>
                 /\ parsed.value.ok = get_addr_for_function(location).ok
                 /\ parsed.value.addr = get_addr_for_function(location).addr

\* a number that is no line of the program was left unresolved after line
\* resolution alone
C13_Witness ==
    /\ parsed.done
    /\ location = <<"7">>
    /\ ~parsed.value.ok
    /\ parsed.value.asked = <<"line">>

\* C14: every successful write_byte(addr, val) returns the byte that was at
\* addr, leaves val there and every other byte of the process as it was, at
\* each of the offsets 0..7 of a word; and after a patch, however many times
\* the saved byte was put back and the trap patched in again, the memory is the
\* original with only the byte at addr replaced by the trap.
C14_WriteByteSplice ==
    [][(cell'.used /\ cell'.ok /\ cell' # cell)
            => /\ cell'.ret = ByteAt(cell.p.mem, cell.addr)
               /\ ByteAt(cell'.p.mem, cell.addr) = cell'.val
               /\ \A b \in MappedBytes \ {cell.addr} :
                     ByteAt(cell'.p.mem, b) = ByteAt(cell.p.mem, b)
               /\ cell'.last = "patch"
                     => \A b \in MappedBytes :
                           ByteAt(cell'.p.mem, b) =
                              IF b = cell.addr THEN TrapByte ELSE ByteAt(cell'.origin, b)
               /\ cell'.last = "restore" => cell'.p.mem = cell'.origin]_vars

\* the byte at offset 7 of a word, not the trap byte itself, was patched,
\* restored and patched again MaxRounds times
C14_Witness ==
    /\ cell.used /\ cell.ok
    /\ cell.last = "patch"
    /\ cell.rounds = MaxRounds
    /\ cell.addr % WordSize = 7
    /\ cell.saved \notin {0, TrapByte}

\* C15: a break whose location resolves (to an address mapped in the process,
\* when there is one) appends exactly one entry, for that address, and prints
\* the length the table had before as its index; with no process in existence
\* the entry holds the placeholder and no request is made of any process; with
\* a process stopped under the debugger the only request is the write of the
\* trap byte at the address, and the entry holds the byte that was there.
C15_BreakAppendsOne ==
    [][(/\ lastCmd' = "break"
        /\ output' # <<"unwrap on None">>
        /\ \A k \in 1..Len(trace') :
              align_addr_to_word(trace'[k].addr) \in MappedWords)
            => /\ session' = "prompt"
               /\ Len(breakpoints') = Len(breakpoints) + 1
               /\ SubSeq(breakpoints', 1, Len(breakpoints)) = breakpoints
               /\ Len(args') = 2
               /\ args'[1] = Len(breakpoints)
               /\ args'[2] = breakpoints'[Len(breakpoints')][1]
               /\ ~HeldAlive
                     => /\ breakpoints'[Len(breakpoints')][2] = Placeholder
                        /\ trace' = <<>>
                        /\ mem' = mem
               /\ HeldAlive
                     => /\ Ops(trace') = {"write_byte"} /\ Len(trace') = 1
                        /\ trace'[1].addr = args'[2] /\ trace'[1].val = TrapByte
                        /\ ByteAt(mem', args'[2]) = TrapByte
                        /\ breakpoints'[Len(breakpoints')][2] = ByteAt(mem, args'[2])
                        /\ \A b \in MappedBytes \ {args'[2]} :
                              ByteAt(mem', b) = ByteAt(mem, b)]_vars

\* The process is stopped inside a function with the frame base of that
\* function in rbp and the stack as the calls left it: the depth below main,
\* and the functions from the innermost out to main.
Depth ==
    CASE get_function_from_addr(regs.rip).name = "main" /\ regs.rbp = MainFrame -> 0
      [] get_function_from_addr(regs.rip).name = "foo" /\ regs.rbp = FooFrame -> 1
      [] get_function_from_addr(regs.rip).name = "bar" /\ regs.rbp = BarFrame -> 2
      [] OTHER -> -1
CallChain == <<"bar", "foo", "main">>
StackIntact == \A w \in {BarFrame, BarFrame + 8, FooFrame, FooFrame + 8} : mem[w] = ImageWords[w]

HealthChecking == \E t \in TaskIds("health") : tasks[t].pc # "done"

\* C17: once health checking is under way it goes on for as long as the
\* proxy runs: whatever the probes find and whether or not another client
\* connects, there is always a health-check task that has not returned, which
\* will probe an upstream after its next sleep.
C17_HealthCheckingGoesOn ==
    [][HealthChecking => HealthChecking']_vars

\* the first entry of the table at the address just before the instruction pointer
AtBreakpoint == \E i \in 1..Len(breakpoints) : breakpoints[i][1] = regs.rip - 1
FirstEntryAt(a) == CHOOSE i \in 1..Len(breakpoints) :
    /\ breakpoints[i][1] = a
    /\ \A j \in 1..(i - 1) : breakpoints[j][1] # a

\* C18: a continue given at a stop with an entry at rip - 1 makes these
\* requests and no others, in this order: read rip, write the entry's saved
\* byte at the address, move rip back by one, single-step (from the address,
\* with the trap gone from it), write the trap byte at the address, resume; the
\* step is the only time the process runs with the trap absent, and it is one
\* instruction.
C18_StepOverOrder ==
    [][(lastCmd' = "cont" /\ HeldAlive /\ AtBreakpoint)
            => LET a == regs.rip - 1
                   saved == breakpoints[FirstEntryAt(a)][2]
               IN /\ Len(trace') \in {5, 6}
                  /\ trace'[1].op = "rip"
                  /\ trace'[2].op = "write_byte" /\ trace'[2].addr = a /\ trace'[2].val = saved
                  /\ trace'[3].op = "back_rip" /\ trace'[3].rip = a + 1
                  /\ trace'[4].op = "step" /\ trace'[4].rip = a
                  /\ saved # TrapByte => a \notin trace'[4].traps
                  /\ trace'[5].op = "write_byte" /\ trace'[5].addr = a
                  /\ trace'[5].val = TrapByte
                  /\ Len(trace') = 6 => trace'[6].op = "cont" /\ a \in trace'[6].traps
                  /\ session' # "panicked" => Len(trace') = 6]_vars

\* a continue stepped over one breakpoint and the process then ran into another
C18_Witness ==
    /\ lastCmd = "cont"
    /\ Len(trace) = 6
    /\ trace[4].op = "step" /\ trace[6].op = "cont"
    /\ trace[2].addr \notin trace[4].traps
    /\ status.kind = "Stopped" /\ status.sig = "SIGTRAP"
    /\ status.val # trace[2].addr + 1

\* C19: a continue on a stopped process steps over a breakpoint if and only if
\* rip - 1 is the address of some entry of the table; otherwise it reads rip
\* and resumes, with memory and rip as they were and nothing else asked of the
\* process.
C19_StepOverIffAtEntry ==
    [][(lastCmd' = "cont" /\ HeldAlive)
            => /\ (regs.rip - 1 \in TableAddrs(breakpoints))
                     <=> (Ops(trace') \cap {"step", "write_byte", "back_rip"} # {})
               /\ regs.rip - 1 \notin TableAddrs(breakpoints)
                     => /\ Len(trace') = 2
                        /\ trace'[1].op = "rip" /\ trace'[2].op = "cont"
                        /\ trace'[2].rip = regs.rip
                        /\ trace'[2].traps = Traps(mem)]_vars

\* a continue resumed the process directly although the table is not empty
C19_Witness ==
    /\ lastCmd = "cont"
    /\ Ops(trace) = {"rip", "cont"}
    /\ breakpoints # <<>>
    /\ status.kind = "Stopped"

\* C20: a continue moves rip back and restores a saved byte only when the last
\* stop of the process was the trap of executing the trap byte at rip - 1;
\* after a stop for any other reason (another signal; a breakpoint set at
\* rip - 1 while the process was already stopped) continue leaves rip alone.
C20_RollbackOnlyAfterTrap ==
    [][(lastCmd' = "cont" /\ HeldAlive /\ lastStop # Stopped("SIGTRAP", regs.rip))
            => Ops(trace') \cap {"back_rip", "write_byte", "step"} = {}]_vars

\* C21: the byte a continue writes back at a breakpoint address before its
\* single step is the byte of the live process's image at that address: not
\* the placeholder, not the trap byte a duplicate entry holds.
C21_StepOverRestoresOriginal ==
    [][(lastCmd' = "cont" /\ Len(trace') >= 2 /\ trace'[2].op = "write_byte")
            => /\ trace'[2].val = Image[trace'[2].addr]
               /\ trace'[2].val # TrapByte
               /\ Len(trace') >= 4 /\ trace'[4].op = "step"
                     => trace'[4].traps = trace'[2].traps \ {trace'[2].addr}]_vars

\* a step-over in a second process, with two entries at the address, the
\* later of them holding the trap byte
C21_Witness ==
    /\ lastCmd = "cont"
    /\ Len(procs) = 2
    /\ Len(trace) >= 4
    /\ trace[2].op = "write_byte" /\ trace[4].op = "step"
    /\ Len(breakpoints) = 2
    /\ breakpoints[1][1] = trace[2].addr /\ breakpoints[2][1] = trace[2].addr
    /\ breakpoints[2][2] = TrapByte

\* ------------------------------------------------------------ parallel_map

Returned == main_pc.at = "done"

\* C22: when parallel_map returns with num_threads >= 1, the vector returned has
\* the length of the input, its element i is f(input[i]), and every index was
\* assigned exactly once in the collecting loop, whatever the interleaving.
C22_ParallelMapIsMap ==
    (Returned /\ num_threads >= 1) =>
        /\ Len(output_vec) = Len(input_vec)
        /\ \A i \in 1..Len(input_vec) :
              /\ output_vec[i] = F(input_vec[i])
              /\ written[i] = 1

\* two workers, two different items, the call has returned
C22_Witness ==
    /\ Returned
    /\ num_threads = 2
    /\ Len(input_vec) = 2
    /\ input_vec[1] # input_vec[2]
    /\ output_vec = <<F(input_vec[1]), F(input_vec[2])>>

AllExited == \A w \in 1..Len(threads) : threads[w].pc = "exited"

\* C23: under fair scheduling parallel_map returns, for every input and every
\* num_threads >= 0; when it returns every worker spawned has left its receive
\* loop and dropped its sender, and every result sent has been received.
C23_ParallelMapTerminates ==
    /\ <>Returned
    /\ [](Returned =>
            /\ Len(threads) = num_threads
            /\ AllExited
            /\ channels.senders2 = 0
            /\ channels.queue2 = <<>>
            /\ \A i \in 1..Len(written) : num_threads >= 1 => written[i] = 1)

\* more workers than items: one worker never gets an item and still leaves
C23_Witness ==
    /\ Returned
    /\ num_threads = 2
    /\ Len(input_vec) = 1
    /\ AllExited

\* ------------------------------------------------------------ balancebeam, failover

ListedLive(list) == {u \in Upstreams : list[u] # None}

\* C24: a connection task that holds the read lock of connect_to_upstream has
\* an upstream listed live to draw, so that the draw ends, the lock is given
\* back and the client is answered with a stream or with 502.
C24_DrawEnds ==
    \A t \in lock.readers : ListedLive(live_upstream_addresses) # {}

\* the probe of upstream u by health check t has just read a 200
Got200(t, u) ==
    /\ tasks[t].pc = "probe"
    /\ tasks[t].i = u
    /\ tasks'[t].pc \in {"sleep", "done"}
    /\ tasks'[t].result \in {"", "checked"}

\* C25: the list has one slot per configured upstream, empty or holding that
\* upstream's own address; a client is answered 502 only when the attempt to
\* every upstream listed live at that moment has failed; when filter_upstream
\* returns, every upstream the connection task tried in vain is marked dead;
\* and a dead slot is filled again only by a health check that read a 200.
C25_FailoverKeepsTheList ==
    /\ [](/\ DOMAIN live_upstream_addresses = Upstreams
          /\ \A u \in Upstreams :
                live_upstream_addresses[u] \in {None, upstream_addresses[u]})
    /\ [][/\ \A t \in TaskIds("conn") :
                /\ (tasks[t].result # "502" /\ tasks'[t].result = "502")
                      => ListedLive(live_upstream_addresses) \subseteq tasks'[t].failed
                /\ (tasks[t].pc = "filter" /\ tasks'[t].pc # "filter")
                      => /\ tasks[t].idx \in tasks'[t].failed
                         /\ \A u \in tasks'[t].failed : live_upstream_addresses'[u] = None
          /\ \A u \in Upstreams :
                (live_upstream_addresses[u] = None /\ live_upstream_addresses'[u] # None)
                      => \E t \in TaskIds("health") : Got200(t, u)]_vars

\* the upstream drawn refused the connection, the other one took it
C25_Witness ==
    \E t \in TaskIds("conn") :
        /\ tasks[t].pc = "serve"
        /\ tasks[t].failed = {tasks[t].idx}
        /\ live_upstream_addresses[tasks[t].idx] = None
        /\ ListedLive(live_upstream_addresses) # {}

\* ------------------------------------------------------------ LinkedList

\* C26: after any sequence of push_front and pop_front the size is the number
\* of nodes reachable from head, is_empty holds exactly when head is empty, the
\* size is never below 0, and pop_front of an empty list returns None and
\* leaves head and size as they were.
C26_SizeCountsNodes ==
    /\ [](/\ size = NodeCount(head)
          /\ is_empty(TheList) <=> head = NoNode
          /\ size >= 0)
    /\ [][(returned'.op = "pop_front" /\ head = NoNode)
            => /\ ~returned'.some
               /\ head' = head
               /\ size' = size]_vars
    /\ [][(returned'.op = "pop_front" /\ head # NoNode)
            => /\ returned'.some /\ returned'.value = head[1].value
               /\ size' = size - 1]_vars

\* pop_front has just found the list empty
C26_Witness ==
    /\ returned.op = "pop_front"
    /\ ~returned.some
    /\ head = NoNode
    /\ size = 0

====
